---- MODULE Spec2Model ----
(***************************************************************************)
(* A model of django-dbtasks' Runner (src/src/dbtasks/runner.py): the      *)
(* shared task store, the atomic claim, the dispatch loop, the worker      *)
(* pool with its completion callbacks, periodic re-scheduling and the      *)
(* wait / wait_for / stop lifecycle calls.                                 *)
(*                                                                         *)
(* Threads are modelled one step per shared-state access.  A block run     *)
(* under `with self.lock` is one step: the lock makes it atomic with       *)
(* respect to every other block under the lock, and the unlocked accesses  *)
(* are single reads or writes.  A `transaction.atomic` block with          *)
(* select_for_update is one step: the store's row lock is the primitive    *)
(* the runner delegates mutual exclusion to.                               *)
(***************************************************************************)
EXTENDS Integers, Sequences, FiniteSets, TLC

(* ------------------------------ bounds -------------------------------- *)

\* Records ever inserted in the store (task ids are never reused).
MaxTasks == 3
\* The largest thread pool a runner is built with (Runner(workers=...)).
Workers == 2
\* The clock runs from 0 to MaxTime ticks.
MaxTime == 2
\* Clock ticks in one minute: the resolution below the crontab's minute.
TicksPerMinute == 1
\* The tasks enqueued where callers wait for results.
MaxWaited == 2

\* Crontab.next and Crontab.dates are called with `until` at most this many
\* minutes (and a fraction) after `after`.
MaxMinutes == 3
\* The longest Duration built has this many weeks (and less than one more).
MaxWeeks == 2

(* ----------------------------- constants ------------------------------ *)

Runners == {1, 2}
Clients == {1, 2}
Null == -1

READY == "READY"
RUNNING == "RUNNING"
SUCCESSFUL == "SUCCESSFUL"
FAILED == "FAILED"
Terminal == {SUCCESSFUL, FAILED}

\* Task paths of tests/tasks.py.
send_mail == "tests.tasks.send_mail"
maintenance == "tests.tasks.maintenance"
kaboom == "tests.tasks.kaboom"
TaskPaths == {send_mail, maintenance, kaboom}

\* The backend a runner is built on: its alias and its queues.
DEFAULT_TASK_BACKEND_ALIAS == "default"
BackendAlias(r) == DEFAULT_TASK_BACKEND_ALIAS
BackendQueues(r) == {"default"}

Range(s) == {s[i] : i \in DOMAIN s}
Min(a, b) == IF a < b THEN a ELSE b
Max(a, b) == IF a > b THEN a ELSE b

VARIABLES
    store,        \* the ScheduledTask table: task id -> row
    nextId,       \* the next task id to hand out
    now,          \* the clock
    workers,      \* r -> self.workers, the size of the thread pool
    periodic,     \* r -> the task paths of self.periodic
    tasks,        \* r -> the keys of self.tasks, the in-flight map
    seen_modules, \* r -> self.seen_modules
    processed,    \* r -> self.processed
    stopsign,     \* r -> self.stopsign is set
    empty,        \* r -> self.empty is set
    waiting,      \* r -> self.waiting: task id -> the client whose Event it holds
    runPc,        \* r -> where the thread in run() is
    runErr,       \* r -> an exception is propagating out of run()
    available,    \* r -> schedule_tasks' local `available`
    batch,        \* r -> schedule_tasks' local `tasks`: the claimed ids, in order
    cursor,       \* r -> the index in batch of the `for t in tasks` loop
    delay,        \* r -> the value schedule_tasks returned
    job,          \* task id -> the Future of a submitted task and its callback
    client,       \* c -> a caller thread: its call in progress
    event,        \* c -> the threading.Event client c created in wait_for is set
    cron,         \* the Crontab object a caller built, or why building it raised
    parsed,       \* the last CrontabParser.parse call: parser, field spec, outcome
    call,         \* the last Crontab.match / next / dates call and what it gave
    lock          \* r -> the section that holds self.lock, or Free

vars == <<store, nextId, now, workers, periodic, tasks, seen_modules, processed, stopsign,
          empty, waiting, runPc, runErr, available, batch, cursor, delay, job,
          client, event, cron, parsed, call, lock>>

\* The state of the schedule objects, which no runner thread touches.
ScheduleVars == <<cron, parsed, call>>

\* self.lock: free, or held by a `with self.lock` section: that of
\* schedule_tasks, that of task_done for task `id`, or that of reload.
Free == [section |-> "none", id |-> 0]
Held(section, id) == [section |-> section, id |-> id]

\* No object built, no call made yet.
NoCall == [op |-> "none"]

(* ------------------------------ the store ----------------------------- *)

\* A row as ScheduledTask.objects.create / Task.enqueue inserts it.
NewTask(path, args) ==
    [status |-> READY, task_path |-> path, periodic |-> args.periodic,
     run_after |-> args.run_after, enqueued_at |-> now, started_at |-> Null,
     finished_at |-> Null, priority |-> args.priority, backend |-> args.backend, queue |-> args.queue,
     worker_ids |-> <<>>]

Insert(st, id, row) == [i \in DOMAIN st \cup {id} |-> IF i = id THEN row ELSE st[i]]
Without(f, k) == [x \in DOMAIN f \ {k} |-> f[x]]

\* The filter of get_tasks without its status=READY term.
EligibleAnyStatus(t, r) ==
    /\ (t.run_after = Null \/ t.run_after <= now)
    /\ t.backend = BackendAlias(r)
    /\ t.queue \in BackendQueues(r)

\* The filter of get_tasks without its run_after term.
EligibleAnyTime(t, r) ==
    /\ t.status = READY
    /\ t.backend = BackendAlias(r)
    /\ t.queue \in BackendQueues(r)

\* The filter of get_tasks, had it left rows of priority 0 aside.
EligibleUrgent(t, r) ==
    /\ (t.run_after = Null \/ t.run_after <= now)
    /\ t.status = READY
    /\ t.backend = BackendAlias(r)
    /\ t.queue \in BackendQueues(r)
    /\ t.priority > 0

\* The filter of get_tasks: run_after null or <= now, READY, this runner's
\* backend alias and queues.
Eligible(t, r) ==
    /\ (t.run_after = Null \/ t.run_after <= now)
    /\ t.status = READY
    /\ t.backend = BackendAlias(r)
    /\ t.queue \in BackendQueues(r)

EligibleIds(r) == {id \in DOMAIN store : Eligible(store[id], r)}

\* The ordering, had it been order_by("enqueued_at") alone.
PrecedesByAge(a, b) ==
    store[a].enqueued_at < store[b].enqueued_at

\* order_by("-priority", "enqueued_at"): a comes strictly before b.
Precedes(a, b) ==
    \/ store[a].priority > store[b].priority
    \/ /\ store[a].priority = store[b].priority
       /\ store[a].enqueued_at < store[b].enqueued_at

\* The lists the query [:number] can return: the first rows of the ordering,
\* rows that compare equal in either order.
Batches(E, number) ==
    LET k == Min(number, Cardinality(E))
    IN  {b \in [1..k -> E] :
            /\ \A i, j \in 1..k : i < j => b[i] # b[j] /\ ~Precedes(b[j], b[i])
            /\ \A u \in E \ Range(b) : \A i \in 1..k : ~Precedes(u, b[i])}

\* get_tasks' loop, had its save left the status out of update_fields.
ClaimedStatusUnsaved(r, b) ==
    [id \in DOMAIN store |->
        IF id \in Range(b)
        THEN [store[id] EXCEPT !.started_at = now, !.worker_ids = Append(@, r)]
        ELSE store[id]]

\* The rows after the `for t in tasks` loop of get_tasks saved them.
Claimed(r, b) ==
    [id \in DOMAIN store |->
        IF id \in Range(b)
        THEN [store[id] EXCEPT !.status = RUNNING, !.started_at = now,
                               !.worker_ids = Append(@, r)]
        ELSE store[id]]

(* ------------------------------ periodic ------------------------------ *)

\* Crontab.next(after=now) for a schedule every minute of which matches: the scan
\* adds one minute, match() accepts it, and the result has its seconds zeroed.
PeriodicNext(after) ==
    ((after + TicksPerMinute) \div TicksPerMinute) * TicksPerMinute

\* The row init_periodic and task_done create for a registered schedule.
PeriodicArgs(r) ==
    [periodic |-> TRUE, run_after |-> PeriodicNext(now), priority |-> 0,
     backend |-> BackendAlias(r), queue |-> "default"]

\* init_periodic's delete, had it been left out.
WithoutNothing(st) == st

\* The rows left by init_periodic's delete of READY periodic rows.
WithoutReadyPeriodic(st) ==
    LET keep == {id \in DOMAIN st : ~(st[id].status = READY /\ st[id].periodic)}
    IN  [id \in keep |-> st[id]]

(* ------------------------- the thread in run() ------------------------ *)

\* What self.empty.set() does to the callers blocked in wait(): it notifies them.
Notified(r) ==
    [c \in Clients |->
        IF client[c].pc = "wait_block" /\ client[c].runner = r
        THEN [client[c] EXCEPT !.success = TRUE] ELSE client[c]]

RunVars == <<runPc, runErr, available, batch, cursor, delay>>
RunnerVars == <<workers, periodic, tasks, seen_modules, processed, stopsign, empty, waiting>>
StoreVars == <<store, nextId>>
ClientVars == <<client, event>>

\* run(): self.processed = 0, then init_periodic.
run(r) ==
    /\ runPc[r] = "idle"
    /\ processed' = [processed EXCEPT ![r] = 0]
    /\ runPc' = [runPc EXCEPT ![r] = "init_delete"]
    /\ UNCHANGED <<lock, ScheduleVars, StoreVars, now, workers, periodic, tasks, seen_modules, stopsign, empty,
                   waiting, runErr, available, batch, cursor, delay, job, ClientVars>>

\* init_periodic, first statement: delete the un-started periodic rows.
init_periodic_delete(r) ==
    /\ runPc[r] = "init_delete"
    /\ store' = WithoutReadyPeriodic(store)
    /\ runPc' = [runPc EXCEPT ![r] = "init_create"]
    /\ UNCHANGED <<lock, ScheduleVars, nextId, now, RunnerVars, runErr, available, batch, cursor, delay,
                   job, ClientVars>>

\* init_periodic's loop `for task_path, schedule in self.periodic.items()` goes
\* through the registered paths in the dict's order and keeps its place in
\* `cursor`.
PeriodicOrder == <<maintenance, kaboom>>
PeriodicItems(r) == SelectSeq(PeriodicOrder, LAMBDA p : p \in periodic[r])

\* init_periodic, one turn of its loop: create the next run of one schedule.
init_periodic_create(r) ==
    /\ runPc[r] = "init_create"
    /\ cursor[r] < Len(PeriodicItems(r))
    /\ store' = Insert(store, nextId, NewTask(PeriodicItems(r)[cursor[r] + 1], PeriodicArgs(r)))
    /\ nextId' = nextId + 1
    /\ cursor' = [cursor EXCEPT ![r] = @ + 1]
    /\ UNCHANGED <<lock, ScheduleVars, now, RunnerVars, runPc, runErr, available, batch, delay, job, ClientVars>>

\* init_periodic returns; run() enters its try block.
init_periodic_return(r) ==
    /\ runPc[r] = "init_create"
    /\ cursor[r] = Len(PeriodicItems(r))
    /\ cursor' = [cursor EXCEPT ![r] = 0]
    /\ runPc' = [runPc EXCEPT ![r] = "loop"]
    /\ UNCHANGED <<lock, ScheduleVars, StoreVars, now, RunnerVars, runErr, available, batch, delay, job, ClientVars>>

\* `while not self.stopsign.is_set()`.
run_loop(r) ==
    /\ runPc[r] = "loop"
    /\ runPc' = [runPc EXCEPT ![r] = IF stopsign[r] THEN "shutdown" ELSE "schedule"]
    /\ UNCHANGED <<lock, ScheduleVars, StoreVars, now, RunnerVars, runErr, available, batch, cursor, delay,
                   job, ClientVars>>

\* schedule_tasks taking every worker for available, whatever is in flight.
schedule_tasks_available_all(r) ==
    /\ runPc[r] = "schedule"
    /\ available' = [available EXCEPT ![r] = workers[r]]
    /\ runPc' = [runPc EXCEPT ![r] = "claim"]
    /\ UNCHANGED <<lock, ScheduleVars, StoreVars, now, RunnerVars, runErr, batch, cursor, delay, job,
                   ClientVars>>

\* schedule_tasks: available = max(0, self.workers - len(self.tasks)); with no
\* free worker it returns loop_delay.
schedule_tasks_available(r) ==
    /\ runPc[r] = "schedule"
    /\ LET a == Max(0, workers[r] - Cardinality(tasks[r]))
       IN  /\ available' = [available EXCEPT ![r] = a]
           /\ IF a <= 0
              THEN /\ runPc' = [runPc EXCEPT ![r] = "sleep"]
                   /\ delay' = [delay EXCEPT ![r] = "loop_delay"]
              ELSE /\ runPc' = [runPc EXCEPT ![r] = "claim"]
                   /\ UNCHANGED delay
    /\ UNCHANGED <<lock, ScheduleVars, StoreVars, now, RunnerVars, runErr, batch, cursor, job, ClientVars>>

\* get_tasks(number): nothing for number <= 0, else one durable transaction that
\* selects the first `number` eligible rows for update and saves each as RUNNING
\* (Claimed). The lists it can return.
get_tasks(r, number) ==
    IF number <= 0 THEN {<<>>} ELSE Batches(EligibleIds(r), number)

\* schedule_tasks: tasks = self.get_tasks(available).
schedule_tasks_claim(r) ==
    /\ runPc[r] = "claim"
    /\ \E b \in get_tasks(r, available[r]) :
          /\ store' = Claimed(r, b)
          /\ batch' = [batch EXCEPT ![r] = b]
    /\ runPc' = [runPc EXCEPT ![r] = "claimed"]
    /\ UNCHANGED <<lock, ScheduleVars, nextId, now, RunnerVars, runErr, available, cursor, delay, job, ClientVars>>

\* The claim transaction raises (the store is unreachable, a deadlock, a lock
\* timeout) and rolls back. The exception leaves schedule_tasks and the while
\* loop of run(), whose try catches KeyboardInterrupt alone; its finally runs.
schedule_tasks_claim_fails(r) ==
    /\ runPc[r] = "claim"
    /\ runErr' = [runErr EXCEPT ![r] = TRUE]
    /\ runPc' = [runPc EXCEPT ![r] = "shutdown"]
    /\ UNCHANGED <<lock, ScheduleVars, StoreVars, now, RunnerVars, available, batch, cursor, delay, job, ClientVars>>

\* A thread other than run()'s calls get_tasks(number) on a runner that is not
\* running; `available` and `batch` hold the call's argument and its result
\* until the caller drops them.
get_tasks_direct(r, number) ==
    /\ runPc[r] = "idle"
    /\ \E b \in get_tasks(r, number) :
          /\ store' = Claimed(r, b)
          /\ batch' = [batch EXCEPT ![r] = b]
    /\ available' = [available EXCEPT ![r] = number]
    /\ runPc' = [runPc EXCEPT ![r] = "direct"]
    /\ UNCHANGED <<lock, ScheduleVars, nextId, now, RunnerVars, runErr, cursor, delay, job, ClientVars>>

get_tasks_return(r) ==
    /\ runPc[r] = "direct"
    /\ batch' = [batch EXCEPT ![r] = <<>>]
    /\ available' = [available EXCEPT ![r] = 0]
    /\ runPc' = [runPc EXCEPT ![r] = "idle"]
    /\ UNCHANGED <<lock, ScheduleVars, StoreVars, now, RunnerVars, runErr, cursor, delay, job, ClientVars>>

\* schedule_tasks, `if not tasks`, setting self.empty whatever is in flight.
schedule_tasks_none_unguarded(r) ==
    /\ runPc[r] = "claimed"
    /\ batch[r] = <<>>
    /\ empty' = [empty EXCEPT ![r] = TRUE]
    /\ client' = Notified(r)
    /\ delay' = [delay EXCEPT ![r] = "loop_delay"]
    /\ runPc' = [runPc EXCEPT ![r] = "sleep"]
    /\ UNCHANGED <<lock, ScheduleVars, StoreVars, now, workers, periodic, tasks, seen_modules, processed, stopsign,
                   waiting, runErr, available, batch, cursor, job, event>>

\* schedule_tasks, `if not tasks`: with nothing claimed and nothing in flight
\* set self.empty, and return loop_delay. (The read of self.tasks and the set
\* are one step: only this thread adds to self.tasks.)
schedule_tasks_none(r) ==
    /\ runPc[r] = "claimed"
    /\ batch[r] = <<>>
    /\ IF tasks[r] = {}
       THEN /\ empty' = [empty EXCEPT ![r] = TRUE]
            /\ client' = Notified(r)
       ELSE UNCHANGED <<empty, client>>
    /\ delay' = [delay EXCEPT ![r] = "loop_delay"]
    /\ runPc' = [runPc EXCEPT ![r] = "sleep"]
    /\ UNCHANGED <<lock, ScheduleVars, StoreVars, now, workers, periodic, tasks, seen_modules, processed, stopsign,
                   waiting, runErr, available, batch, cursor, job, event>>

\* schedule_tasks: self.empty.clear() before the claimed tasks are submitted.
schedule_tasks_clear(r) ==
    /\ runPc[r] = "claimed"
    /\ batch[r] # <<>>
    /\ empty' = [empty EXCEPT ![r] = FALSE]
    /\ cursor' = [cursor EXCEPT ![r] = 1]
    /\ runPc' = [runPc EXCEPT ![r] = "submit"]
    /\ UNCHANGED <<lock, ScheduleVars, StoreVars, now, workers, periodic, tasks, seen_modules, processed, stopsign,
                   waiting, runErr, available, batch, delay, job, ClientVars>>

\* t.task_path.rsplit(".", 1)[0]
ModuleOf(path) == "tests.tasks"

\* The Future executor.submit returns, with the arguments the callback is bound to.
NewJob(r, t) ==
    [runner |-> r, task_path |-> t.task_path, was_periodic |-> t.periodic,
     state |-> "PENDING", callback |-> FALSE, done |-> "no", by |-> "nobody"]

\* schedule_tasks: f = self.executor.submit(run_task, t.task_id).
schedule_tasks_submit(r) ==
    /\ runPc[r] = "submit"
    /\ LET pk == batch[r][cursor[r]]
       IN  job' = Insert(job, pk, NewJob(r, store[pk]))
    /\ runPc' = [runPc EXCEPT ![r] = "register"]
    /\ UNCHANGED <<lock, ScheduleVars, StoreVars, now, RunnerVars, runErr, available, batch, cursor, delay,
                   ClientVars>>

\* schedule_tasks, `with self.lock`: note the module, self.tasks[t.task_id] = f.
\* The section is entered when the lock is free, or was entered before
\* (lock_acquire), and leaves the lock free.
schedule_tasks_register(r) ==
    /\ runPc[r] = "register"
    /\ lock[r] \in {Free, Held("schedule_tasks", 0)}
    /\ lock' = [lock EXCEPT ![r] = Free]
    /\ LET pk == batch[r][cursor[r]]
       IN  /\ seen_modules' = [seen_modules EXCEPT ![r] = @ \cup {ModuleOf(job[pk].task_path)}]
           /\ tasks' = [tasks EXCEPT ![r] = @ \cup {pk}]
    /\ runPc' = [runPc EXCEPT ![r] = "callback"]
    /\ UNCHANGED <<ScheduleVars, StoreVars, now, workers, periodic, processed, stopsign, empty, waiting, runErr,
                   available, batch, cursor, delay, job, ClientVars>>

\* schedule_tasks: f.add_done_callback(partial(self.task_done, ...)). A future
\* that is already finished calls the callback at once, in this thread.
schedule_tasks_callback(r) ==
    /\ runPc[r] = "callback"
    /\ LET pk == batch[r][cursor[r]]
       IN  IF job[pk].state = "FINISHED"
           THEN /\ job' = [job EXCEPT ![pk].done = "lock", ![pk].by = "loop"]
                /\ runPc' = [runPc EXCEPT ![r] = "inline"]
           ELSE /\ job' = [job EXCEPT ![pk].callback = TRUE]
                /\ runPc' = [runPc EXCEPT ![r] = "next"]
    /\ UNCHANGED <<lock, ScheduleVars, StoreVars, now, RunnerVars, runErr, available, batch, cursor, delay,
                   ClientVars>>

\* The callback called in this thread has returned.
schedule_tasks_inline(r) ==
    /\ runPc[r] = "inline"
    /\ batch[r][cursor[r]] \notin DOMAIN job
    /\ runPc' = [runPc EXCEPT ![r] = "next"]
    /\ UNCHANGED <<lock, ScheduleVars, StoreVars, now, RunnerVars, runErr, available, batch, cursor, delay,
                   job, ClientVars>>

\* schedule_tasks: the next turn of `for t in tasks`, or after the last one
\* return 0 for a full batch and loop_delay otherwise.
schedule_tasks_next(r) ==
    /\ runPc[r] = "next"
    /\ IF cursor[r] < Len(batch[r])
       THEN /\ cursor' = [cursor EXCEPT ![r] = @ + 1]
            /\ runPc' = [runPc EXCEPT ![r] = "submit"]
            /\ UNCHANGED delay
       ELSE /\ cursor' = [cursor EXCEPT ![r] = 0]
            /\ delay' = [delay EXCEPT ![r] =
                            IF Len(batch[r]) >= available[r] THEN "0" ELSE "loop_delay"]
            /\ runPc' = [runPc EXCEPT ![r] = "sleep"]
    /\ UNCHANGED <<lock, ScheduleVars, StoreVars, now, RunnerVars, runErr, available, batch, job, ClientVars>>

\* run(): time.sleep(delay), and back to the loop's test.
run_sleep(r) ==
    /\ runPc[r] = "sleep"
    /\ delay' = [delay EXCEPT ![r] = "none"]
    /\ batch' = [batch EXCEPT ![r] = <<>>]
    /\ available' = [available EXCEPT ![r] = 0]
    /\ runPc' = [runPc EXCEPT ![r] = "loop"]
    /\ UNCHANGED <<lock, ScheduleVars, StoreVars, now, RunnerVars, runErr, cursor, job, ClientVars>>

JobsOf(r) == {pk \in DOMAIN job : job[pk].runner = r}

\* The futures a worker thread of r's pool is busy with: run_task has begun, or
\* it is in the callback the worker calls.
Busy(r) ==
    {pk \in JobsOf(r) : \/ job[pk].state = "RUNNING"
                        \/ job[pk].by = "worker"}

\* run(), finally, had it been self.executor.shutdown(wait=False).
run_shutdown_nowait(r) ==
    /\ runPc[r] = "shutdown"
    /\ runPc' = [runPc EXCEPT ![r] = "returned"]
    /\ UNCHANGED <<lock, ScheduleVars, StoreVars, now, RunnerVars, runErr, available, batch, cursor, delay,
                   job, ClientVars>>

\* run(), finally: self.executor.shutdown() joins the worker threads, which end
\* once the work queue is empty; then connection.close() and run() is over.
run_shutdown(r) ==
    /\ runPc[r] = "shutdown"
    /\ Busy(r) = {}
    /\ \A pk \in JobsOf(r) : job[pk].state = "FINISHED"
    /\ runPc' = [runPc EXCEPT ![r] = "returned"]
    /\ UNCHANGED <<lock, ScheduleVars, StoreVars, now, RunnerVars, runErr, available, batch, cursor, delay,
                   job, ClientVars>>

(* --------------------------- worker threads --------------------------- *)

\* What task.run_and_update() saves: FAILED when the body raises (kaboom), and
\* SUCCESSFUL when it returns.
Outcome(path) == IF path = kaboom THEN FAILED ELSE SUCCESSFUL

\* A free worker thread of the pool takes the work item and runs run_task up to
\* the end of task.run_and_update(), which saves the row's outcome with the
\* time it finished and does not raise. (The thread reads and writes nothing
\* shared before that save.)
run_task(pk) ==
    /\ job[pk].state = "PENDING"
    /\ Cardinality(Busy(job[pk].runner)) < workers[job[pk].runner]
    /\ store' = [store EXCEPT ![pk].status = Outcome(store[pk].task_path),
                              ![pk].finished_at = now]
    /\ job' = [job EXCEPT ![pk].state = "RUNNING"]
    /\ UNCHANGED <<lock, ScheduleVars, nextId, now, RunnerVars, RunVars, ClientVars>>

\* run_task returning, had the worker called the handler whether or not
\* schedule_tasks has added the callback yet.
run_task_return_early(pk) ==
    /\ job[pk].state = "RUNNING"
    /\ job' = [job EXCEPT ![pk].state = "FINISHED", ![pk].done = "lock", ![pk].by = "worker"]
    /\ UNCHANGED <<lock, ScheduleVars, StoreVars, now, RunnerVars, RunVars, ClientVars>>

\* run_task returns and the future is FINISHED. The worker then calls the
\* callback if schedule_tasks has added it by now.
run_task_return(pk) ==
    /\ job[pk].state = "RUNNING"
    /\ job' = [job EXCEPT ![pk].state = "FINISHED",
                          ![pk].done = IF job[pk].callback THEN "lock" ELSE @,
                          ![pk].by = IF job[pk].callback THEN "worker" ELSE @]
    /\ UNCHANGED <<lock, ScheduleVars, StoreVars, now, RunnerVars, RunVars, ClientVars>>

(* ------------------------------ task_done ----------------------------- *)

\* task_done, `with self.lock`: self.processed += 1; del self.tasks[pk]. The
\* section is entered when the lock is free, or was entered before
\* (lock_acquire), and leaves the lock free.
task_done_lock(pk) ==
    /\ job[pk].done = "lock"
    /\ lock[job[pk].runner] \in {Free, Held("task_done", pk)}
    /\ pk \in tasks[job[pk].runner]
    /\ processed' = [processed EXCEPT ![job[pk].runner] = @ + 1]
    /\ tasks' = [tasks EXCEPT ![job[pk].runner] = @ \ {pk}]
    /\ job' = [job EXCEPT ![pk].done = "signal"]
    /\ lock' = [lock EXCEPT ![job[pk].runner] = Free]
    /\ UNCHANGED <<ScheduleVars, StoreVars, now, workers, periodic, seen_modules, stopsign, empty, waiting,
                   RunVars, ClientVars>>

\* task_done's test without its was_periodic term.
ReschedulesAnyRun(pk) ==
    job[pk].task_path \in periodic[job[pk].runner]

\* task_done: `if was_periodic and (schedule := self.periodic.get(task_path))`.
Reschedules(pk) ==
    job[pk].was_periodic /\ job[pk].task_path \in periodic[job[pk].runner]

\* task_done, had it let the exception of a failed task out of fut.result():
\* the handler of a failed task ends before it sets the waiter's signal.
task_done_signal_unguarded(pk) ==
    /\ job[pk].done = "signal"
    /\ LET r == job[pk].runner
       IN  IF store[pk].status = FAILED
           THEN /\ job' = Without(job, pk)
                /\ UNCHANGED event
           ELSE /\ event' = IF pk \in DOMAIN waiting[r]
                            THEN [event EXCEPT ![waiting[r][pk]] = TRUE]
                            ELSE event
                /\ job' = Without(job, pk)
    /\ UNCHANGED <<lock, ScheduleVars, StoreVars, now, RunnerVars, RunVars, client>>

\* task_done: fut.result() is logged, whatever it is; then
\* `if event := self.waiting.get(pk): event.set()`. When task_done returns, the
\* future has no referent left and leaves `job`.
task_done_signal(pk) ==
    /\ job[pk].done = "signal"
    /\ LET r == job[pk].runner
       IN  /\ event' = IF pk \in DOMAIN waiting[r]
                       THEN [event EXCEPT ![waiting[r][pk]] = TRUE]
                       ELSE event
           /\ job' = IF Reschedules(pk)
                     THEN [job EXCEPT ![pk].done = "schedule"]
                     ELSE Without(job, pk)
    /\ UNCHANGED <<lock, ScheduleVars, StoreVars, now, RunnerVars, RunVars, client>>

\* task_done, for a periodic task with a schedule: create the next run.
task_done_schedule(pk) ==
    /\ job[pk].done = "schedule"
    /\ store' = Insert(store, nextId, NewTask(job[pk].task_path, PeriodicArgs(job[pk].runner)))
    /\ nextId' = nextId + 1
    /\ job' = Without(job, pk)
    /\ UNCHANGED <<lock, ScheduleVars, now, RunnerVars, RunVars, ClientVars>>

(* --------------------------- caller threads --------------------------- *)

\* A caller thread makes one call of wait or wait_for. Where it is when the call
\* is over:
Returned == {"wait_true", "wait_false", "wait_for_true", "wait_for_false",
             "wait_for_KeyError"}

\* mark: the id the next enqueued row will get, noted when a call of wait() begins.
Call(c, pc, r, pk, timeout) ==
    [client EXCEPT ![c] = [pc |-> pc, runner |-> r, pk |-> pk, timeout |-> timeout,
                           success |-> FALSE,
                           mark |-> IF pc = "wait_enter" THEN nextId ELSE 0]]

\* Task.enqueue(): the backend inserts a READY row that is not periodic.
enqueue(path, args) ==
    /\ nextId <= MaxTasks
    /\ ~args.periodic
    /\ store' = Insert(store, nextId, NewTask(path, args))
    /\ nextId' = nextId + 1
    /\ UNCHANGED <<lock, ScheduleVars, now, RunnerVars, RunVars, job, ClientVars>>

\* wait(timeout): self.empty.clear().
wait(c, r, timeout) ==
    /\ client[c].pc = "idle"
    /\ empty' = [empty EXCEPT ![r] = FALSE]
    /\ client' = Call(c, "wait_enter", r, 0, timeout)
    /\ UNCHANGED <<lock, ScheduleVars, StoreVars, now, workers, periodic, tasks, seen_modules, processed, stopsign,
                   waiting, RunVars, job, event>>

\* wait: self.empty.wait(timeout) finds the flag set and returns True, or blocks.
wait_enter(c) ==
    /\ client[c].pc = "wait_enter"
    /\ client' = [client EXCEPT ![c].pc = IF empty[client[c].runner]
                                          THEN "wait_true" ELSE "wait_block"]
    /\ UNCHANGED <<lock, ScheduleVars, StoreVars, now, RunnerVars, RunVars, job, event>>

\* wait: the blocked thread was notified by a set of self.empty; True.
wait_wake(c) ==
    /\ client[c].pc = "wait_block"
    /\ client[c].success
    /\ client' = [client EXCEPT ![c].pc = "wait_true"]
    /\ UNCHANGED <<lock, ScheduleVars, StoreVars, now, RunnerVars, RunVars, job, event>>

\* wait: the timeout passes before any set; False.
wait_timeout(c) ==
    /\ client[c].pc = "wait_block"
    /\ client[c].timeout
    /\ ~client[c].success
    /\ client' = [client EXCEPT ![c].pc = "wait_false"]
    /\ UNCHANGED <<lock, ScheduleVars, StoreVars, now, RunnerVars, RunVars, job, event>>

\* The statuses a caller's TaskResult can show for a row: the row's status when
\* the result was made or last refreshed.
Views(status) ==
    IF status = READY THEN {READY}
    ELSE IF status = RUNNING THEN {READY, RUNNING}
    ELSE {READY, RUNNING, status}

\* wait_for(result, timeout): True at once for a finished result; else a new
\* Event.
wait_for(c, r, pk, view, timeout) ==
    /\ client[c].pc = "idle"
    /\ pk \in DOMAIN store
    /\ view \in Views(store[pk].status)
    /\ IF view \in Terminal
       THEN /\ client' = [Call(c, "wait_for_true", r, pk, timeout) EXCEPT ![c].success = TRUE]
            /\ UNCHANGED event
       ELSE /\ client' = Call(c, "wait_for_register", r, pk, timeout)
            /\ event' = [event EXCEPT ![c] = FALSE]
    /\ UNCHANGED <<lock, ScheduleVars, StoreVars, now, RunnerVars, RunVars, job>>

\* wait_for: self.waiting[result.id] = event.
wait_for_register(c) ==
    /\ client[c].pc = "wait_for_register"
    /\ waiting' = [waiting EXCEPT ![client[c].runner] =
                      Insert(@, client[c].pk, c)]
    /\ client' = [client EXCEPT ![c].pc = "wait_for_block"]
    /\ UNCHANGED <<lock, ScheduleVars, StoreVars, now, workers, periodic, tasks, seen_modules, processed, stopsign,
                   empty, RunVars, job, event>>

\* wait_for: event.wait(timeout) returns True, the event being set.
wait_for_wake(c) ==
    /\ client[c].pc = "wait_for_block"
    /\ event[c]
    /\ client' = [client EXCEPT ![c].pc = "wait_for_del", ![c].success = TRUE]
    /\ UNCHANGED <<lock, ScheduleVars, StoreVars, now, RunnerVars, RunVars, job, event>>

\* wait_for: event.wait(timeout) returns False, the timeout passing first.
wait_for_timeout(c) ==
    /\ client[c].pc = "wait_for_block"
    /\ client[c].timeout
    /\ ~event[c]
    /\ client' = [client EXCEPT ![c].pc = "wait_for_del", ![c].success = FALSE]
    /\ UNCHANGED <<lock, ScheduleVars, StoreVars, now, RunnerVars, RunVars, job, event>>

\* wait_for: del self.waiting[result.id], a KeyError when the id is not there.
wait_for_del(c) ==
    /\ client[c].pc = "wait_for_del"
    /\ LET r == client[c].runner
           pk == client[c].pk
       IN  IF pk \in DOMAIN waiting[r]
           THEN /\ waiting' = [waiting EXCEPT ![r] = Without(@, pk)]
                /\ client' = [client EXCEPT ![c].pc = "wait_for_refresh"]
           ELSE /\ client' = [client EXCEPT ![c].pc = "wait_for_KeyError"]
                /\ UNCHANGED waiting
    /\ UNCHANGED <<lock, ScheduleVars, StoreVars, now, workers, periodic, tasks, seen_modules, processed, stopsign,
                   empty, RunVars, job, event>>

\* wait_for: result.refresh(); return success.
wait_for_return(c) ==
    /\ client[c].pc = "wait_for_refresh"
    /\ client' = [client EXCEPT ![c].pc = IF client[c].success
                                          THEN "wait_for_true" ELSE "wait_for_false"]
    /\ UNCHANGED <<lock, ScheduleVars, StoreVars, now, RunnerVars, RunVars, job, event>>

\* stop(): self.stopsign.set().
stop(r) ==
    /\ stopsign' = [stopsign EXCEPT ![r] = TRUE]
    /\ UNCHANGED <<lock, ScheduleVars, StoreVars, now, workers, periodic, tasks, seen_modules, processed, empty,
                   waiting, RunVars, job, ClientVars>>

\* Time passes. The runner reads the clock to compare it with run_after and to
\* stamp rows, so the model lets it advance only while a row waits for its
\* run_after.
Tick ==
    /\ now < MaxTime
    /\ \E id \in DOMAIN store : store[id].status = READY /\ store[id].run_after > now
    /\ now' = now + 1
    /\ UNCHANGED <<lock, ScheduleVars, StoreVars, RunnerVars, RunVars, job, ClientVars>>

(* ----------------------------- crontab.py ----------------------------- *)

\* WEEKDAYS and MONTHS: the values of the names a field accepts, keyed by the
\* first three letters in lower case.
WEEKDAYS ==
    [mon |-> 1, tue |-> 2, wed |-> 3, thu |-> 4, fri |-> 5, sat |-> 6, sun |-> 7]

MONTHS ==
    [jan |-> 1, feb |-> 2, mar |-> 3, apr |-> 4, may |-> 5, jun |-> 6,
     jul |-> 7, aug |-> 8, sep |-> 9, oct |-> 10, nov |-> 11, dec |-> 12]

\* CrontabParser(min_value, max_value, names): __init__ keeps the bounds and the
\* names under key[:3].lower(), each value range-checked (all of them pass).
CrontabParser(min_value, max_value, names) ==
    [min_value |-> min_value, max_value |-> max_value, names |-> names]

\* The five module-level parsers.
minute == CrontabParser(0, 59, <<>>)
hour == CrontabParser(0, 23, <<>>)
day == CrontabParser(1, 31, <<>>)
month == CrontabParser(1, 12, MONTHS)
weekday == CrontabParser(0, 7, WEEKDAYS)

\* What a parser call gives: the list it returns, or the exception it raises.
Returns(values) == [raised |-> "none", values |-> values]
Raises(error) == [raised |-> error, values |-> <<>>]

\* The text of a value inside a part: a string of digits with its int(), or
\* any other text. A part is what spec.split(",") gives, already cut at its
\* first "/" and its first "-": `kind` is "*", "~", "-" (lo-hi) or "value" (lo).
Digits(n) == [isdigit |-> TRUE, int |-> n, text |-> ""]
Text(s) == [isdigit |-> FALSE, int |-> 0, text |-> s]
Part(kind, lo, hi) == [slash |-> FALSE, step |-> 0, kind |-> kind, lo |-> lo, hi |-> hi]
Star == Part("*", Digits(0), Digits(0))
Tilde == Part("~", Digits(0), Digits(0))
Value(v) == Part("value", v, v)
FromTo(lo, hi) == Part("-", lo, hi)
Slash(part, step) == [part EXCEPT !.slash = TRUE, !.step = step]

\* part[:3].lower() on the texts the inputs are drawn from.
Prefix3(text) ==
    CASE text = "February" -> "feb"
      [] text = "SUNDAY" -> "sun"
      [] text = "Mon" -> "mon"
      [] OTHER -> text

\* _range_check letting every number through.
range_unchecked(p, num) == Returns(<<num>>)

\* _range_check
range_check(p, num) ==
    IF num < p.min_value \/ num > p.max_value
    THEN Raises("CrontabParseError")
    ELSE Returns(<<num>>)

\* _get_value: digits are range-checked, any other text is looked up in names
\* (a name of value 0 would count as missing).
get_value(p, part) ==
    IF part.isdigit
    THEN range_check(p, part.int)
    ELSE LET key == Prefix3(part.text)
         IN  IF key \in DOMAIN p.names /\ p.names[key] # 0
             THEN Returns(<<p.names[key]>>)
             ELSE Raises("CrontabParseError")

\* values[::step] for step > 0: the elements at indices 0, step, 2 * step, ...
Slice(values, step) ==
    [i \in 1..((Len(values) + step - 1) \div step) |-> values[(i - 1) * step + 1]]

\* list(range(lo, hi + 1))
RangeList(lo, hi) == [i \in 1..(hi - lo + 1) |-> lo + i - 1]

\* list(sorted(values)) of a set
RECURSIVE Sorted(_)
Sorted(S) ==
    IF S = {}
    THEN <<>>
    ELSE LET least == CHOOSE m \in S : \A x \in S : m <= x
         IN  <<least>> \o Sorted(S \ {least})

\* parse_part; `rnd` is what random.randint gives this part.
RECURSIVE parse_part(_, _, _)
parse_part(p, part, rnd) ==
    IF part.slash
    THEN LET step == range_check(p, part.step)
             values == parse_part(p, [part EXCEPT !.slash = FALSE], rnd)
         IN  IF step.raised # "none" THEN step
             ELSE IF values.raised # "none" THEN values
             ELSE IF part.step = 0 THEN Raises("ValueError")
             ELSE Returns(Slice(values.values, part.step))
    ELSE IF part.kind = "*"
    THEN Returns(RangeList(p.min_value, p.max_value))
    ELSE IF part.kind = "~"
    THEN Returns(<<rnd>>)
    ELSE IF part.kind = "-"
    THEN LET lo == get_value(p, part.lo)
             hi == get_value(p, part.hi)
         IN  IF lo.raised # "none" THEN lo
             ELSE IF hi.raised # "none" THEN hi
             ELSE IF lo.values[1] > hi.values[1] THEN Raises("CrontabParseError")
             ELSE Returns(RangeList(lo.values[1], hi.values[1]))
    ELSE get_value(p, part.lo)

\* parse: the parts of spec.split(","), in order, the first exception
\* propagating; then the sorted list of the set of their values.
parse(p, spec, rnd) ==
    LET results == [i \in DOMAIN spec |-> parse_part(p, spec[i], rnd[i])]
        failed == {i \in DOMAIN spec : results[i].raised # "none"}
    IN  IF failed # {}
        THEN results[CHOOSE i \in failed : \A j \in failed : i <= j]
        ELSE Returns(Sorted(UNION {Range(results[i].values) : i \in DOMAIN spec}))

\* A caller's parser.parse(spec) runs and returns or raises.
parse_call ==
    /\ parsed.op = "parse" /\ parsed.pc = "called"
    /\ parsed' = [parsed EXCEPT !.pc = "done",
                                !.result = parse(parsed.parser, parsed.spec, parsed.rnd)]
    /\ UNCHANGED <<lock, StoreVars, now, RunnerVars, RunVars, job, ClientVars, cron, call>>

\* The datetimes a caller passes: seconds counted from 2025-01-31 00:00:00 (a
\* Friday), over the days of Calendar; year, month, day and isoweekday() of a
\* datetime are those of its day, dt.hour and dt.minute follow from the count.
Calendar ==
    <<[year |-> 2025, month |-> 1, day |-> 31, isoweekday |-> 5],
      [year |-> 2025, month |-> 2, day |-> 1, isoweekday |-> 6],
      [year |-> 2025, month |-> 2, day |-> 2, isoweekday |-> 7],
      [year |-> 2025, month |-> 2, day |-> 3, isoweekday |-> 1]>>

At(d, h, m, s) == ((d * 24 + h) * 60 + m) * 60 + s
DateOf(dt) == Calendar[(dt \div 86400) + 1]
HourOf(dt) == (dt \div 3600) % 24
MinuteOf(dt) == (dt \div 60) % 60

\* dt + timedelta(minutes=1) and dt.replace(second=0, microsecond=0)
PlusMinute(dt) == dt + 60
WholeMinute(dt) == dt - (dt % 60)

\* Crontab.__init__: the five fields parsed in order, the first exception
\* propagating; a field is "specified" when its text is not "*".
Crontab(spec, rnd) ==
    LET parsers == <<minute, hour, day, month, weekday>>
        fields == [i \in 1..5 |-> parse(parsers[i], spec[i], rnd[i])]
        failed == {i \in 1..5 : fields[i].raised # "none"}
        raised == IF Len(spec) # 5 THEN "CrontabParseError"
                  ELSE IF failed # {}
                  THEN fields[CHOOSE i \in failed : \A j \in failed : i <= j].raised
                  ELSE "none"
        built == raised = "none"
    IN  [op |-> "Crontab", raised |-> raised, spec |-> spec,
         minutes |-> IF built THEN fields[1].values ELSE <<>>,
         hours |-> IF built THEN fields[2].values ELSE <<>>,
         days |-> IF built THEN fields[3].values ELSE <<>>,
         months |-> IF built THEN fields[4].values ELSE <<>>,
         weekdays |-> IF built THEN fields[5].values ELSE <<>>,
         specifies_day |-> built /\ spec[3] # <<Star>>,
         specifies_weekday |-> built /\ spec[5] # <<Star>>]

\* match with day and weekday always both required.
match_both(self, dt) ==
    /\ MinuteOf(dt) \in Range(self.minutes)
    /\ HourOf(dt) \in Range(self.hours)
    /\ DateOf(dt).month \in Range(self.months)
    /\ DateOf(dt).day \in Range(self.days)
    /\ DateOf(dt).isoweekday \in Range(self.weekdays)

\* match
match(self, dt) ==
    IF MinuteOf(dt) \notin Range(self.minutes) THEN FALSE
    ELSE IF HourOf(dt) \notin Range(self.hours) THEN FALSE
    ELSE IF DateOf(dt).month \notin Range(self.months) THEN FALSE
    ELSE IF self.specifies_day /\ self.specifies_weekday
    THEN ~ (/\ DateOf(dt).day \notin Range(self.days)
            /\ DateOf(dt).isoweekday \notin Range(self.weekdays))
    ELSE IF DateOf(dt).day \notin Range(self.days) THEN FALSE
    ELSE IF DateOf(dt).isoweekday \notin Range(self.weekdays) THEN FALSE
    ELSE TRUE

\* next returning the first match it steps on, before `until` or not.
RECURSIVE next_any(_, _, _)
next_any(self, after, until) ==
    IF after < until
    THEN IF match(self, PlusMinute(after))
         THEN Returns(<<WholeMinute(PlusMinute(after))>>)
         ELSE next_any(self, PlusMinute(after), until)
    ELSE Raises("CrontabExhausted")

\* next, both arguments given: the loop steps `after` by one minute while it
\* is before `until`.
RECURSIVE next(_, _, _)
next(self, after, until) ==
    IF after < until
    THEN IF match(self, PlusMinute(after)) /\ PlusMinute(after) < until
         THEN Returns(<<WholeMinute(PlusMinute(after))>>)
         ELSE next(self, PlusMinute(after), until)
    ELSE Raises("CrontabExhausted")

\* dates, both arguments given: list(self.dates(after, until)), the generator
\* run until it returns.
RECURSIVE dates(_, _, _)
dates(self, after, until) ==
    LET d == next(self, after, until)
    IN  IF d.raised = "CrontabExhausted"
        THEN <<>>
        ELSE <<d.values[1]>> \o dates(self, d.values[1], until)

\* A caller builds a Crontab.
Crontab_init(spec, rnd) ==
    /\ cron = NoCall
    /\ cron' = Crontab(spec, rnd)
    /\ UNCHANGED <<lock, StoreVars, now, RunnerVars, RunVars, job, ClientVars, parsed, call>>

\* A caller that holds a Crontab calls match, next or dates on it.
Built == cron.op = "Crontab" /\ cron.raised = "none"

match_call(dt) ==
    /\ Built /\ call = NoCall
    /\ call' = [op |-> "match", after |-> dt, until |-> dt, result |-> match(cron, dt)]
    /\ UNCHANGED <<lock, StoreVars, now, RunnerVars, RunVars, job, ClientVars, parsed, cron>>

next_call(after, until) ==
    /\ Built /\ call = NoCall
    /\ call' = [op |-> "next", after |-> after, until |-> until,
                result |-> next(cron, after, until)]
    /\ UNCHANGED <<lock, StoreVars, now, RunnerVars, RunVars, job, ClientVars, parsed, cron>>

dates_call(after, until) ==
    /\ Built /\ call = NoCall
    /\ call' = [op |-> "dates", after |-> after, until |-> until,
                result |-> dates(cron, after, until)]
    /\ UNCHANGED <<lock, StoreVars, now, RunnerVars, RunVars, job, ClientVars, parsed, cron>>

(* ------------------------------ Duration ------------------------------ *)

\* The unit letters of a duration string, largest first, and their seconds.
Units == <<"w", "d", "h", "m", "s">>
UnitSeconds == [w |-> 604800, d |-> 86400, h |-> 3600, m |-> 60, s |-> 1]

\* What Duration(...) is given: a string of digits, a string of
\* <integer><unit> pairs, or a Duration (held as its total seconds).
Bare(n) == [form |-> "digits", int |-> n, pairs |-> <<>>]
Pairs(ps) == [form |-> "pairs", int |-> 0, pairs |-> ps]
Same(seconds) == [form |-> "Duration", int |-> seconds, pairs |-> <<>>]
Pair(n, unit) == [n |-> n, unit |-> unit]

\* The sum of the pairs of a duration string.
RECURSIVE SumOfPairs(_)
SumOfPairs(ps) ==
    IF ps = <<>>
    THEN 0
    ELSE Head(ps).n * UnitSeconds[Head(ps).unit] + SumOfPairs(Tail(ps))

\* Duration(value): the total seconds, or the parse error of an unknown unit.
Duration(value) ==
    IF value.form = "Duration" \/ value.form = "digits"
    THEN [raised |-> "none", seconds |-> value.int]
    ELSE IF \E i \in DOMAIN value.pairs : value.pairs[i].unit \notin Range(Units)
    THEN [raised |-> "ScheduleParseError", seconds |-> 0]
    ELSE [raised |-> "none", seconds |-> SumOfPairs(value.pairs)]

\* duration_string with the whole span given in seconds.
duration_string_seconds(seconds) ==
    IF seconds = 0 THEN <<>> ELSE <<Pair(seconds, "s")>>

\* duration_string: each unit, largest first, takes as much of what is left
\* as it holds; a unit that takes nothing is left out.
duration_string(seconds) ==
    LET RECURSIVE From(_, _)
        From(i, left) ==
            IF i > Len(Units)
            THEN <<>>
            ELSE LET size == UnitSeconds[Units[i]]
                     rest == From(i + 1, left % size)
                 IN  IF left \div size = 0
                     THEN rest
                     ELSE <<Pair(left \div size, Units[i])>> \o rest
    IN  From(1, seconds)

\* A caller builds a Duration, formats it and builds a Duration from the string.
Duration_new(value) ==
    /\ call = NoCall
    /\ call' = [op |-> "Duration", value |-> value,
                pc |-> IF Duration(value).raised = "none" THEN "built" ELSE "raised",
                seconds |-> Duration(value).seconds, string |-> <<>>, again |-> 0]
    /\ UNCHANGED <<lock, StoreVars, now, RunnerVars, RunVars, job, ClientVars, parsed, cron>>

Duration_string ==
    /\ call.op = "Duration" /\ call.pc = "built"
    /\ call' = [call EXCEPT !.pc = "formatted", !.string = duration_string(call.seconds)]
    /\ UNCHANGED <<lock, StoreVars, now, RunnerVars, RunVars, job, ClientVars, parsed, cron>>

Duration_again ==
    /\ call.op = "Duration" /\ call.pc = "formatted"
    /\ Duration(Pairs(call.string)).raised = "none"
    /\ call' = [call EXCEPT !.pc = "reparsed",
                            !.again = Duration(Pairs(call.string)).seconds]
    /\ UNCHANGED <<lock, StoreVars, now, RunnerVars, RunVars, job, ClientVars, parsed, cron>>

(* ------------------------------ self.lock ----------------------------- *)

\* `with self.lock:` acquires the lock, as a step of its own: the thread in
\* run() at schedule_tasks' section, the thread that runs task_done for task
\* `id`, or a caller of reload().
lock_acquire(r, section, id) ==
    /\ lock[r] = Free
    /\ \/ section = "schedule_tasks" /\ id = 0 /\ runPc[r] = "register"
       \/ section = "task_done" /\ id \in JobsOf(r) /\ job[id].done = "lock"
       \/ section = "reload" /\ id \in Clients
    /\ lock' = [lock EXCEPT ![r] = Held(section, id)]
    /\ UNCHANGED <<ScheduleVars, StoreVars, now, RunnerVars, RunVars, job, ClientVars>>

\* reload(), `with self.lock`: every seen module is re-imported, and those
\* whose import fails are discarded from self.seen_modules.
reload(r, c) ==
    /\ lock[r] \in {Free, Held("reload", c)}
    /\ \E failing \in SUBSET seen_modules[r] :
          seen_modules' = [seen_modules EXCEPT ![r] = @ \ failing]
    /\ lock' = [lock EXCEPT ![r] = Free]
    /\ UNCHANGED <<ScheduleVars, StoreVars, now, workers, periodic, tasks, processed, stopsign,
                   empty, waiting, RunVars, job, ClientVars>>

(* ------------------------------- cleanup ------------------------------ *)

\* cleanup deleting also what finished exactly `retention` ago.
cleanup_through(st, retention) ==
    LET before == now - retention
        kept == {id \in DOMAIN st :
                    ~ (/\ st[id].status \in {SUCCESSFUL, FAILED}
                       /\ st[id].finished_at # Null
                       /\ st[id].finished_at <= before)}
    IN  [id \in kept |-> st[id]]

\* cleanup(retention): the table after the DELETE of the rows with status in
\* (SUCCESSFUL, FAILED) and finished_at < now - retention; a row without
\* finished_at does not compare less.
cleanup(st, retention) ==
    LET before == now - retention
        kept == {id \in DOMAIN st :
                    ~ (/\ st[id].status \in {SUCCESSFUL, FAILED}
                       /\ st[id].finished_at # Null
                       /\ st[id].finished_at < before)}
    IN  [id \in kept |-> st[id]]

\* A worker thread runs the body of the cleanup task.
cleanup_run(retention) ==
    /\ store' = cleanup(store, retention)
    /\ UNCHANGED <<lock, ScheduleVars, nextId, now, RunnerVars, RunVars, job, ClientVars>>

(* --------------------------- specifications --------------------------- *)

\* What a caller passes to enqueue().
EnqueueArgs ==
    [periodic |-> FALSE, run_after |-> Null, priority |-> 0,
     backend |-> DEFAULT_TASK_BACKEND_ALIAS, queue |-> "default"]

IdleClient == [pc |-> "idle", runner |-> 0, pk |-> 0, timeout |-> FALSE,
               success |-> FALSE, mark |-> 0]

\* A store and the Runners as __init__ leaves them.
InitRunners(rows, pools, schedules) ==
    /\ store = rows
    /\ nextId = Len(rows) + 1
    /\ now = 0
    /\ workers = pools
    /\ periodic = schedules
    /\ tasks = [r \in Runners |-> {}]
    /\ seen_modules = [r \in Runners |-> {}]
    /\ processed = [r \in Runners |-> 0]
    /\ stopsign = [r \in Runners |-> FALSE]
    /\ empty = [r \in Runners |-> FALSE]
    /\ waiting = [r \in Runners |-> <<>>]
    /\ runPc = [r \in Runners |-> "idle"]
    /\ runErr = [r \in Runners |-> FALSE]
    /\ available = [r \in Runners |-> 0]
    /\ batch = [r \in Runners |-> <<>>]
    /\ cursor = [r \in Runners |-> 0]
    /\ delay = [r \in Runners |-> "none"]
    /\ job = <<>>
    /\ client = [c \in Clients |-> IdleClient]
    /\ event = [c \in Clients |-> FALSE]
    /\ lock = [r \in Runners |-> Free]

\* The same, no schedule object built and no call on one made.
InitWith(rows, pools, schedules) ==
    /\ InitRunners(rows, pools, schedules)
    /\ cron = NoCall
    /\ parsed = NoCall
    /\ call = NoCall

\* run() and schedule_tasks, but for the turns of init_periodic's loop, a failing
\* claim and the shutdown a stop or a failure leads to.
LoopStep(r) ==
    \/ run(r)
    \/ init_periodic_delete(r)
    \/ init_periodic_return(r)
    \/ run_loop(r)
    \/ schedule_tasks_available(r)
    \/ schedule_tasks_claim(r)
    \/ schedule_tasks_none(r)
    \/ schedule_tasks_clear(r)
    \/ schedule_tasks_submit(r)
    \/ schedule_tasks_register(r)
    \/ schedule_tasks_callback(r)
    \/ schedule_tasks_inline(r)
    \/ schedule_tasks_next(r)
    \/ run_sleep(r)

\* A worker thread: run_task, and task_done but for its re-scheduling.
WorkerStep(pk) ==
    \/ run_task(pk)
    \/ run_task_return(pk)
    \/ task_done_lock(pk)
    \/ task_done_signal(pk)

\* A caller thread in wait().
WaitStep(c, r) ==
    \/ \E timeout \in BOOLEAN : wait(c, r, timeout)
    \/ wait_enter(c)
    \/ wait_wake(c)
    \/ wait_timeout(c)

\* A caller thread in wait_for().
WaitForStep(c, r) ==
    \/ \E pk \in DOMAIN store, view \in {READY, RUNNING, SUCCESSFUL, FAILED},
          timeout \in BOOLEAN : wait_for(c, r, pk, view, timeout)
    \/ wait_for_register(c)
    \/ wait_for_wake(c)
    \/ wait_for_timeout(c)
    \/ wait_for_del(c)
    \/ wait_for_return(c)

Pools == [Runners -> 1..Workers]
NoSchedules == [r \in Runners |-> {}]

\* Spec: one runner without periodic schedules, its worker threads, callers
\* that enqueue tasks and stop the runner, and claims that fail.
Init == \E pools \in Pools : pools[2] = 1 /\ InitWith(<<>>, pools, NoSchedules)

Next ==
    \/ LoopStep(1)
    \/ schedule_tasks_claim_fails(1)
    \/ \E pk \in DOMAIN job : WorkerStep(pk)
    \/ \E path \in {send_mail, kaboom} : enqueue(path, EnqueueArgs)
    \/ stop(1)
    \/ run_shutdown(1)

Spec == Init /\ [][Next]_vars

\* FairSpec: Spec, where the thread in run() and every worker thread keep being
\* scheduled (time.sleep returns, task bodies terminate).
FairSpec ==
    /\ Spec
    /\ WF_vars(LoopStep(1) \/ run_shutdown(1))
    /\ \A pk \in 1..MaxTasks : WF_vars(pk \in DOMAIN job /\ WorkerStep(pk))

\* SpecPeriodic: one runner with one periodic schedule, its worker threads, the
\* clock, and callers that enqueue manual runs of the scheduled task.
Schedules == {[r \in Runners |-> IF r = 1 THEN {p} ELSE {}] : p \in {maintenance, kaboom}}

InitPeriodic ==
    \E pools \in Pools, schedules \in Schedules :
        pools[2] = 1 /\ InitWith(<<>>, pools, schedules)

NextPeriodic ==
    \/ LoopStep(1)
    \/ init_periodic_create(1)
    \/ \E pk \in DOMAIN job : WorkerStep(pk) \/ task_done_schedule(pk)
    \/ \E path \in periodic[1] : enqueue(path, EnqueueArgs)
    \/ Tick

SpecPeriodic == InitPeriodic /\ [][NextPeriodic]_vars

\* SpecWait: one runner without periodic schedules, its worker threads, callers
\* that enqueue tasks and a caller of wait().
NextWait ==
    \/ LoopStep(1)
    \/ \E pk \in DOMAIN job : WorkerStep(pk)
    \/ enqueue(send_mail, EnqueueArgs)
    \/ WaitStep(1, 1)

SpecWait == Init /\ [][NextWait]_vars

\* SpecWaitFor: one runner without periodic schedules, its worker threads,
\* callers that enqueue tasks and a caller of wait_for().
NextWaitFor ==
    \/ LoopStep(1)
    \/ \E pk \in DOMAIN job : WorkerStep(pk)
    \/ \E path \in {send_mail, kaboom} : nextId <= MaxWaited /\ enqueue(path, EnqueueArgs)
    \/ WaitForStep(1, 1)

\* The thread in run() and every worker thread keep being scheduled (time.sleep
\* returns, task bodies terminate).
SpecWaitFor ==
    /\ Init /\ [][NextWaitFor]_vars
    /\ WF_vars(LoopStep(1))
    /\ \A pk \in 1..MaxTasks : WF_vars(pk \in DOMAIN job /\ WorkerStep(pk))

\* SpecWaitForFair: SpecWaitFor, where the caller's thread too keeps being
\* scheduled once it is in wait_for (when it calls is its own choice).
SpecWaitForFair ==
    /\ SpecWaitFor
    /\ WF_vars(wait_for_register(1) \/ wait_for_wake(1) \/ wait_for_del(1) \/ wait_for_return(1))

\* SpecWaiters: one runner without periodic schedules, its worker threads,
\* callers that enqueue tasks and two callers of wait_for(), the second of which
\* calls no earlier than the first.
NextWaiters ==
    \/ LoopStep(1)
    \/ \E pk \in DOMAIN job : WorkerStep(pk)
    \/ nextId <= MaxWaited /\ enqueue(send_mail, EnqueueArgs)
    \/ \E c \in Clients : (c = 1 \/ client[1].pc # "idle") /\ WaitForStep(c, 1)

SpecWaiters == Init /\ [][NextWaiters]_vars

\* SpecMulti: two runners that share the store and the periodic schedule of one
\* task, their worker threads and the clock.
InitMulti ==
    \E pools \in Pools :
        InitWith(<<>>, pools, [r \in Runners |-> {maintenance}])

NextMulti ==
    \/ \E r \in Runners : LoopStep(r) \/ init_periodic_create(r)
    \/ \E pk \in DOMAIN job : WorkerStep(pk) \/ task_done_schedule(pk)
    \/ Tick

SpecMulti == InitMulti /\ [][NextMulti]_vars

\* run() up to the end of init_periodic.
StartStep(r) ==
    \/ run(r)
    \/ init_periodic_delete(r)
    \/ init_periodic_create(r)
    \/ init_periodic_return(r)

\* SpecClaims: two runners share a store of READY rows that callers enqueued
\* before the runners started; each runner starts and makes the get_tasks call of
\* its first dispatch cycle, for as many rows as its pool has threads.
Priorities == {0, 1}

InitClaims ==
    /\ now = 0
    /\ \E pools \in Pools, n \in 0..MaxTasks :
          \E prio \in [1..n -> Priorities] :
              InitWith([i \in 1..n |-> NewTask(send_mail, [EnqueueArgs EXCEPT !.priority = prio[i]])],
                       pools, NoSchedules)

NextClaims ==
    \E r \in Runners :
        \/ run(r)
        \/ init_periodic_delete(r)
        \/ init_periodic_return(r)
        \/ run_loop(r)
        \/ schedule_tasks_available(r)
        \/ schedule_tasks_claim(r)
        \/ schedule_tasks_none(r)

SpecClaims == InitClaims /\ [][NextClaims]_vars

\* SpecRestart: a runner starts on the store a previous run left behind, and
\* once its init_periodic is over a second runner with the same schedules starts
\* (the restart), while the clock runs.
StaleRows ==
    {[NewTask(path, [EnqueueArgs EXCEPT !.periodic = p, !.run_after = after])
         EXCEPT !.status = st] :
        path \in {maintenance, kaboom}, p \in BOOLEAN, after \in {0, 1},
        st \in {READY, SUCCESSFUL}}

InitRestart ==
    /\ now = 0
    /\ \E n \in 0..2, paths \in SUBSET {maintenance, kaboom} :
          \E rows \in [1..n -> StaleRows] :
              InitWith(rows, [r \in Runners |-> 1], [r \in Runners |-> paths])

NextRestart ==
    \/ StartStep(1)
    \/ runPc[1] = "loop" /\ StartStep(2)
    \/ Tick

SpecRestart == InitRestart /\ [][NextRestart]_vars

\* SpecEligible: callers enqueue rows of either priority, due at once or later,
\* on this runner's backend and queue or on others, while the clock runs, and a
\* thread calls get_tasks(number) on runner 1 again and again.
EnqueueChoices ==
    {[EnqueueArgs EXCEPT !.priority = p, !.run_after = after,
                         !.backend = bq[1], !.queue = bq[2]] :
        p \in Priorities, after \in {Null, MaxTime},
        bq \in {<<"default", "default">>, <<"other", "default">>, <<"default", "low">>}}

NextEligible ==
    \/ \E args \in EnqueueChoices : enqueue(send_mail, args)
    \/ Tick
    \/ \E number \in -1..Workers : get_tasks_direct(1, number)
    \/ get_tasks_return(1)

SpecEligible == Init /\ [][NextEligible]_vars

\* The field specs a caller parses: one part of any shape, or such a part
\* followed by a plain one, the values taken around the bounds of the fields.
FieldSpecs ==
    LET ValueTexts == {Digits(n) : n \in {0, 1, 2, 5, 7, 8, 23, 30, 45, 60}}
                          \cup {Text(s) : s \in {"February", "SUNDAY", "xyz"}}
        Steps == {0, 2, 3, 23}
        Bodies == {Star, Tilde} \cup {Value(v) : v \in ValueTexts}
                      \cup {FromTo(lo, hi) : lo \in ValueTexts, hi \in ValueTexts}
        Parts == Bodies \cup {Slash(b, step) : b \in Bodies, step \in Steps}
        PlainParts == {Star, Value(Digits(0)), Value(Digits(5)), Value(Text("Mon"))}
    IN  {<<a>> : a \in Parts} \cup {<<a, b>> : a \in Parts, b \in PlainParts}

\* A call parser.parse(spec) of one of the five parsers is about to run; `rnd`
\* holds what random.randint will give each part, one end of the field's range.
InitParser ==
    /\ InitRunners(<<>>, [r \in Runners |-> 1], NoSchedules)
    /\ cron = NoCall
    /\ call = NoCall
    /\ \E p \in {minute, hour, day, month, weekday}, spec \in FieldSpecs :
          \E rnd \in [DOMAIN spec -> {p.min_value, p.max_value}] :
              parsed = [op |-> "parse", pc |-> "called", parser |-> p, spec |-> spec,
                        rnd |-> rnd, result |-> Returns(<<>>)]

SpecParser == InitParser /\ [][parse_call]_vars

\* The crontab specs a caller builds: per field a few texts around the instants
\* drawn below, one of them out of range; and one spec of four fields.
CrontabSpecs ==
    LET MinuteFields == {<<Star>>, <<Value(Digits(0))>>, <<Value(Digits(30))>>,
                         <<Slash(Star, 2)>>, <<Value(Digits(60))>>}
        HourFields == {<<Star>>, <<Value(Digits(0))>>, <<Value(Digits(4))>>}
        DayFields == {<<Star>>, <<Value(Digits(1))>>, <<Value(Digits(31))>>,
                      <<Value(Digits(1)), Value(Digits(15))>>}
        MonthFields == {<<Star>>, <<Value(Digits(2))>>, <<Value(Text("February"))>>}
        WeekdayFields == {<<Star>>, <<Value(Digits(0))>>, <<Value(Digits(7))>>,
                          <<Value(Digits(5))>>, <<Value(Text("SUNDAY"))>>,
                          <<FromTo(Digits(6), Digits(7))>>,
                          <<FromTo(Digits(0), Digits(2)), Value(Digits(5))>>}
    IN  {<<mi, ho, da, mo, we>> : mi \in MinuteFields, ho \in HourFields,
                                  da \in DayFields, mo \in MonthFields,
                                  we \in WeekdayFields}
            \cup {<<<<Star>>, <<Star>>, <<Star>>, <<Star>>>>}

\* No "~" among them: what random.randint would give is never used.
NoDraws(spec) == [i \in DOMAIN spec |-> [j \in DOMAIN spec[i] |-> 0]]

\* The instants passed as `dt` and `after`: on and off the whole minute, before
\* the turn of a day, of the month and of the week, and before 04:30.
Afters ==
    {At(d, hm[1], hm[2], s) : d \in {0, 1}, hm \in {<<23, 58>>, <<4, 28>>}, s \in {0, 30}}

\* `until` lies up to MaxMinutes later, on or off the whole minute.
Untils(after) == {after + 60 * k + s : k \in 0..MaxMinutes, s \in {0, 40}}

InitCrontab == InitWith(<<>>, [r \in Runners |-> 1], NoSchedules)

NextCrontab ==
    \/ cron = NoCall /\ \E spec \in CrontabSpecs : Crontab_init(spec, NoDraws(spec))
    \/ call = NoCall /\ \E dt \in Afters : match_call(PlusMinute(PlusMinute(dt)))
    \/ call = NoCall /\ \E after \in Afters : \E until \in Untils(after) :
          next_call(after, until)
    \/ call = NoCall /\ \E after \in Afters : \E until \in Untils(after) :
          dates_call(after, until)

SpecCrontab == InitCrontab /\ [][NextCrontab]_vars

\* What a caller builds a Duration of: bare seconds of spans up to MaxWeeks
\* weeks, with days, hours, minutes and seconds at both ends of their ranges
\* and in between; strings of pairs, canonical or not, one of an unknown unit;
\* and the Durations built of those strings.
DurationValues ==
    LET Spans == {At(7 * w + d, h, m, s) :
                      w \in 0..MaxWeeks, d \in {0, 3, 6}, h \in {0, 7, 23},
                      m \in {0, 1, 21, 59}, s \in {0, 10, 47, 59}}
        PairStrings ==
            {<<Pair(107, "s")>>, <<Pair(2, "w")>>, <<Pair(90, "m")>>, <<Pair(1, "x")>>,
             <<Pair(1, "s"), Pair(1, "m")>>,
             <<Pair(2, "w"), Pair(3, "d"), Pair(7, "h"), Pair(21, "m"), Pair(10, "s")>>}
    IN  {Bare(n) : n \in Spans} \cup {Pairs(ps) : ps \in PairStrings}
            \cup {Same(Duration(Pairs(ps)).seconds) : ps \in PairStrings}

NextDuration ==
    \/ call = NoCall /\ \E value \in DurationValues : Duration_new(value)
    \/ Duration_string
    \/ Duration_again

SpecDuration == InitCrontab /\ [][NextDuration]_vars

\* SpecLock: Spec's runner, workers and callers, and callers of reload(), where
\* every `with self.lock` acquires the lock in a step of its own before the
\* step that runs the section and releases it.
NextLock ==
    \/ (runPc[1] = "register" => lock[1] = Held("schedule_tasks", 0)) /\ LoopStep(1)
    \/ \E pk \in DOMAIN job :
          (job[pk].done = "lock" => lock[1] = Held("task_done", pk)) /\ WorkerStep(pk)
    \/ \E section \in {"schedule_tasks", "task_done", "reload"}, id \in 0..MaxTasks :
          lock_acquire(1, section, id)
    \/ \E c \in Clients : lock[1] = Held("reload", c) /\ reload(1, c)
    \/ \E path \in {send_mail, kaboom} : enqueue(path, EnqueueArgs)
    \/ stop(1)
    \/ run_shutdown(1)

SpecLock == Init /\ [][NextLock]_vars

\* SpecCleanup: one runner and its one worker thread, callers that enqueue tasks
\* to run at once or at MaxTime, the clock, and the cleanup task run with a
\* retention of 0 to MaxTime.
NextCleanup ==
    \/ LoopStep(1)
    \/ \E pk \in DOMAIN job : WorkerStep(pk)
    \/ \E path \in {send_mail, kaboom}, at \in {Null, MaxTime} :
          enqueue(path, [EnqueueArgs EXCEPT !.run_after = at])
    \/ Tick
    \/ \E retention \in 0..MaxTime : cleanup_run(retention)

SpecCleanup == InitWith(<<>>, [r \in Runners |-> 1], NoSchedules) /\ [][NextCleanup]_vars

\* SpecProgress: one runner that is never stopped and whose claims do not fail,
\* its one worker thread, and callers that enqueue tasks of either priority on its
\* backend or on another one, each due at once. The thread in run() and every
\* worker thread keep being scheduled (time.sleep returns, task bodies
\* terminate); the callers enqueue MaxTasks rows at most.
SpecProgress ==
    /\ InitWith(<<>>, [r \in Runners |-> 1], NoSchedules)
    /\ [][\/ LoopStep(1)
          \/ \E pk \in DOMAIN job : WorkerStep(pk)
          \/ \E path \in {send_mail, kaboom}, p \in Priorities, alias \in {"default", "other"} :
                enqueue(path, [EnqueueArgs EXCEPT !.priority = p, !.backend = alias])]_vars
    /\ WF_vars(LoopStep(1))
    /\ \A pk \in 1..MaxTasks : WF_vars(pk \in DOMAIN job /\ WorkerStep(pk))

(* ------------------------------- claims ------------------------------- *)

\* The rows runner r claimed.
ClaimedBy(r) == {id \in DOMAIN store : r \in Range(store[id].worker_ids)}

\* C1. Claim exclusivity (SpecClaims). A call of get_tasks for `available` rows
\* returns min(available, eligible rows) different rows, each of them eligible
\* when the call began, and marks those and no others; no row is ever returned
\* by two calls (each call adds its runner to the row's worker_ids); and once
\* every runner has made its call on a store of M rows, the rows claimed are
\* min(M, total requested) in number.
C1_ClaimExclusivity ==
    /\ [][\A r \in Runners :
             runPc[r] = "claim" /\ runPc'[r] # "claim" =>
                /\ Len(batch'[r]) = Min(available[r], Cardinality(EligibleIds(r)))
                /\ Cardinality(Range(batch'[r])) = Len(batch'[r])
                /\ Range(batch'[r]) \subseteq EligibleIds(r)
                /\ \A id \in DOMAIN store :
                      IF id \in Range(batch'[r])
                      THEN store'[id].status = RUNNING /\ store'[id].worker_ids = <<r>>
                      ELSE store'[id] = store[id]]_vars
    /\ [](/\ \A id \in DOMAIN store :
               /\ Len(store[id].worker_ids) <= 1
               /\ Cardinality({r \in Runners : id \in Range(batch[r])}) <= 1
          /\ (\A r \in Runners : runPc[r] \in {"claimed", "sleep"}) =>
                Cardinality(UNION {Range(batch[r]) : r \in Runners})
                   = Min(Cardinality(DOMAIN store), available[1] + available[2]))

\* Both runners have made their calls, for four rows in all of a store of three,
\* and each got some.
C1_Witness ==
    /\ \A r \in Runners : runPc[r] = "claimed" /\ batch[r] # <<>>
    /\ Cardinality(DOMAIN store) = 3
    /\ available[1] + available[2] = 4
    /\ \E a, b \in DOMAIN store : store[a].priority # store[b].priority

\* C11. Claim ordering (SpecEligible). A call get_tasks(n) returns
\* min(n, eligible rows) rows (none for n <= 0), listed by priority descending
\* and then enqueue time ascending, and no eligible row it leaves behind has a
\* higher priority than a row it returns, or the same priority and an earlier
\* enqueue time.
C11_ClaimOrdering ==
    [][\A r \in Runners :
          runPc[r] = "idle" /\ runPc'[r] = "direct" =>
             LET b == batch'[r]
                 left == EligibleIds(r) \ Range(b)
             IN  /\ Len(b) = Min(Max(available'[r], 0), Cardinality(EligibleIds(r)))
                 /\ \A i, j \in DOMAIN b :
                       i < j =>
                          \/ store[b[i]].priority > store[b[j]].priority
                          \/ /\ store[b[i]].priority = store[b[j]].priority
                             /\ store[b[i]].enqueued_at <= store[b[j]].enqueued_at
                 /\ \A c \in Range(b), u \in left :
                       /\ store[u].priority <= store[c].priority
                       /\ store[u].priority = store[c].priority =>
                             store[u].enqueued_at >= store[c].enqueued_at]_vars

\* A call has returned a row of the higher priority and left behind an eligible
\* row of the lower priority that was enqueued earlier.
C11_Witness ==
    /\ runPc[1] = "direct"
    /\ \E c \in Range(batch[1]), u \in EligibleIds(1) :
          /\ store[c].priority > store[u].priority
          /\ store[c].enqueued_at > store[u].enqueued_at

\* C12. Claim eligibility (SpecEligible). A call get_tasks(n) returns at most n
\* rows, and for n <= 0 none, leaving the store as it was; every row it returns
\* was READY, had run_after null or <= now, and was of the runner's backend
\* alias and one of its queues; so a row that was claimed is of that backend
\* and queue and was not started before its run_after.
C12_ClaimEligibility ==
    /\ [][\A r \in Runners :
             runPc[r] = "idle" /\ runPc'[r] = "direct" =>
                /\ Len(batch'[r]) <= Max(available'[r], 0)
                /\ available'[r] <= 0 => batch'[r] = <<>> /\ store' = store
                /\ \A id \in Range(batch'[r]) :
                      /\ store[id].status = READY
                      /\ store[id].run_after = Null \/ store[id].run_after <= now
                      /\ store[id].backend = BackendAlias(r)
                      /\ store[id].queue \in BackendQueues(r)]_vars
    /\ [](\A id \in DOMAIN store :
            store[id].status # READY =>
               /\ store[id].run_after = Null \/ store[id].run_after <= store[id].started_at
               /\ \A i \in DOMAIN store[id].worker_ids :
                     /\ store[id].backend = BackendAlias(store[id].worker_ids[i])
                     /\ store[id].queue \in BackendQueues(store[id].worker_ids[i]))

\* A call has returned a row whose run_after has come, leaving READY a row of
\* another backend; and a call for no rows has been made.
C12_Witness ==
    /\ runPc[1] = "direct"
    /\ \E id \in Range(batch[1]), u \in DOMAIN store :
          /\ store[id].run_after # Null
          /\ store[u].status = READY
          /\ store[u].backend # BackendAlias(1)
          /\ store[u].run_after = Null

\* C2. wait() returns true only once the queue is drained (SpecWait): when a
\* call of wait() has returned true, every row that was enqueued before the call
\* began (all are claimable at once) is in a terminal status.
C2_WaitTrueMeansDrained ==
    \A c \in Clients :
        client[c].pc = "wait_true" =>
           \A id \in DOMAIN store :
              id < client[c].mark => store[id].status \in Terminal

\* C3. Periodic chain (SpecPeriodic). When the completion handler of a task
\* ends: if the row it ran was claimed with its periodic flag set and a schedule
\* is registered for its path, the handler has inserted exactly one row, READY,
\* periodic, of the same path, whose run_after is the first whole minute after
\* now and which is enqueued strictly after the completed row, and it changed
\* no other row; for any other run (a manual one of the same path) the handler
\* leaves the store as it was, the pending periodic row still READY.
C3_PeriodicChain ==
    [][\A pk \in DOMAIN job :
          pk \notin DOMAIN job' =>
             /\ store[pk].status \in Terminal
             /\ IF store[pk].periodic /\ store[pk].task_path \in periodic[job[pk].runner]
                THEN \E n \in DOMAIN store' \ DOMAIN store :
                        /\ DOMAIN store' = DOMAIN store \cup {n}
                        /\ \A id \in DOMAIN store : store'[id] = store[id]
                        /\ store'[n].status = READY
                        /\ store'[n].periodic
                        /\ store'[n].task_path = store[pk].task_path
                        /\ store'[n].run_after > now
                        /\ store'[n].run_after - TicksPerMinute <= now
                        /\ store'[n].run_after % TicksPerMinute = 0
                        /\ store'[n].enqueued_at > store[pk].enqueued_at
                ELSE store' = store]_vars

\* A periodic run and a manual run have both completed, and the periodic run's
\* successor is pending.
C3_Witness ==
    \E id, n, m \in DOMAIN store :
        /\ store[id].periodic /\ store[id].status \in Terminal /\ id \notin DOMAIN job
        /\ store[n].periodic /\ store[n].status = READY /\ n > id
        /\ ~store[m].periodic /\ store[m].status \in Terminal /\ m \notin DOMAIN job
        /\ store[m].task_path = store[id].task_path

\* C4. At most one pending instance per periodic schedule (SpecMulti): in every
\* state of the store, each task path has at most one READY periodic row.
C4_OnePendingPerSchedule ==
    \A a, b \in DOMAIN store :
        /\ store[a].status = READY /\ store[a].periodic
        /\ store[b].status = READY /\ store[b].periodic
        /\ store[a].task_path = store[b].task_path
        => a = b

\* The READY periodic rows of a task path.
Pending(path) ==
    {id \in DOMAIN store :
        store[id].status = READY /\ store[id].periodic /\ store[id].task_path = path}

\* C5. Restart idempotence (SpecRestart). A run of init_periodic leaves, when no
\* other is under way, exactly one READY periodic row for each registered path
\* and none for any other path, the second run as the first; between its delete
\* and its first insert there is no READY periodic row at all; and it neither
\* removes nor changes a row that is not a READY periodic one.
C5_RestartIdempotence ==
    /\ [](\A r \in Runners :
            /\ (runPc[r] = "loop" /\ \A q \in Runners : runPc[q] # "init_create") =>
                  \A path \in TaskPaths :
                     Cardinality(Pending(path)) = IF path \in periodic[r] THEN 1 ELSE 0
            /\ runPc[r] = "init_create" =>
                  \A path \in TaskPaths :
                     Cardinality(Pending(path)) =
                        IF \E i \in 1..cursor[r] : PeriodicItems(r)[i] = path THEN 1 ELSE 0)
    /\ [][/\ \A id \in DOMAIN store :
                ~(store[id].status = READY /\ store[id].periodic) =>
                   id \in DOMAIN store' /\ store'[id] = store[id]
          /\ \A id \in DOMAIN store' \ DOMAIN store :
                /\ store'[id].status = READY
                /\ store'[id].periodic
                /\ store'[id].run_after > now]_vars

\* The restarted runner is through init_periodic with two schedules: the stale
\* READY periodic row of the first run's store is gone, the row enqueued by a
\* caller is still there, and the rows the first run inserted are gone too.
C5_Witness ==
    /\ runPc[1] = "loop" /\ runPc[2] = "loop"
    /\ periodic[2] = {maintenance, kaboom}
    /\ nextId = 7
    /\ DOMAIN store = {2, 5, 6}
    /\ ~store[2].periodic /\ store[2].status = READY

\* C6. wait_for (SpecWaiters). A call of wait_for ends by returning, never by
\* raising; it returns true at once, registering nothing, only for a result whose
\* row is in a terminal status; a call that registered a signal returns true only
\* if its signal was set and false only if it had a timeout; when it returns
\* true the row is in a terminal status; and when it returns the waiting map
\* no longer holds its registration under the task id.
C6_WaitForContract ==
    [][\A c \in Clients :
          client'[c].pc # client[c].pc =>
             LET r == client'[c].runner
                 pk == client'[c].pk
             IN  /\ client'[c].pc # "wait_for_KeyError"
                 /\ client[c].pc = "idle" /\ client'[c].pc = "wait_for_true" =>
                       /\ store[pk].status \in Terminal
                       /\ waiting' = waiting
                 /\ client[c].pc = "wait_for_refresh" =>
                       /\ client'[c].pc \in {"wait_for_true", "wait_for_false"}
                       /\ client'[c].pc = "wait_for_true" =>
                             event[c] /\ store[pk].status \in Terminal
                       /\ client'[c].pc = "wait_for_false" => client[c].timeout
                       /\ pk \in DOMAIN waiting'[r] => waiting'[r][pk] # c]_vars

\* The rows whose completion handler has counted them.
Handled(r) ==
    {id \in ClaimedBy(r) :
        /\ store[id].status \in Terminal
        /\ id \in DOMAIN job => job[id].done \in {"signal", "schedule"}}

\* C7. Task failure isolation (SpecWaitFor). The run of a task whose body raises
\* leaves its row FAILED; the thread in run() never leaves its loop; every handler
\* that is past its locked section has taken its row, failed or not, out of the
\* in-flight map and counted it; the handler of a failed row sets the signal
\* registered for it, and the caller blocked on a set signal goes on only with
\* true; and every READY row is eventually run to a terminal status, whatever
\* became of the others.
C7_FailureIsolation ==
    /\ [][/\ \A pk \in DOMAIN job \cap DOMAIN job' :
                /\ job[pk].state = "PENDING"
                /\ job'[pk].state = "RUNNING"
                /\ job[pk].task_path = kaboom
                => store'[pk].status = FAILED
          /\ \A pk \in DOMAIN job :
                /\ job[pk].done = "signal"
                /\ pk \in DOMAIN job' => job'[pk].done # "signal"
                /\ store[pk].status = FAILED
                /\ pk \in DOMAIN waiting[job[pk].runner]
                => event'[waiting[job[pk].runner][pk]]
          /\ \A c \in Clients :
                /\ client[c].pc = "wait_for_block"
                /\ event[c]
                /\ client'[c].pc # client[c].pc
                => client'[c].success]_vars
    /\ [](\A r \in Runners :
            /\ ~runErr[r]
            /\ runPc[r] \notin {"shutdown", "returned"}
            /\ tasks[r] \cap Handled(r) = {}
            /\ processed[r] = Cardinality(Handled(r))
            /\ \A c \in Clients : client[c].pc = "wait_for_true" <=>
                                     client[c].pc \in Returned /\ client[c].success)
    /\ \A id \in 1..MaxTasks :
          (IF id \in DOMAIN store THEN store[id].status = READY ELSE FALSE)
             ~> (IF id \in DOMAIN store THEN store[id].status \in Terminal ELSE FALSE)

\* A caller that registered for a task that failed has returned true, and a row
\* enqueued after the failed one has been run successfully.
C7_Witness ==
    \E c \in Clients, id \in DOMAIN store :
        /\ client[c].pc = "wait_for_true"
        /\ event[c]
        /\ store[client[c].pk].status = FAILED
        /\ client[c].pk \in Handled(1)
        /\ id > client[c].pk
        /\ store[id].status = SUCCESSFUL

\* C8. A failed claim does not stop the loop (Spec): run() is in its finally
\* block or over only after stop() was called.
C8_FailedClaimKeepsLoop ==
    \A r \in Runners : runPc[r] \in {"shutdown", "returned"} => stopsign[r]

\* C9. Status state machine (SpecPeriodic). A row enters the store READY; a
\* row's status changes only from READY to RUNNING, and then in the claim step
\* of a runner that got the row in its batch, or from RUNNING to SUCCESSFUL or
\* FAILED, and then in the worker thread that runs it.
C9_StatusStateMachine ==
    [][/\ \A id \in DOMAIN store' \ DOMAIN store : store'[id].status = READY
       /\ \A id \in DOMAIN store \cap DOMAIN store' :
             \/ store'[id].status = store[id].status
             \/ /\ store[id].status = READY
                /\ store'[id].status = RUNNING
                /\ \E r \in Runners : /\ runPc[r] = "claim"
                                      /\ runPc'[r] = "claimed"
                                      /\ id \in Range(batch'[r])
             \/ /\ store[id].status = RUNNING
                /\ store'[id].status \in Terminal
                /\ id \in DOMAIN job
                /\ job[id].state = "PENDING"
                /\ job'[id].state = "RUNNING"]_vars

\* A row has gone all the way to a terminal status while another is RUNNING.
C9_Witness ==
    \E id, other \in DOMAIN store :
        /\ store[id].status \in Terminal
        /\ store[other].status = RUNNING

\* C10. Stop and drain (FairSpec). A step that sets the stop signal changes
\* nothing else; a dispatch cycle starts only when the loop's test finds the
\* signal unset; once the signal is set while run() is under way, run()
\* eventually returns; and when it has returned, every row the runner claimed
\* is in a terminal status, its completion handler has run (processed counts
\* it), and the in-flight map and the pool's work queue are empty.
C10_StopAndDrain ==
    /\ [][/\ stopsign' # stopsign =>
                UNCHANGED <<store, nextId, now, workers, periodic, tasks, seen_modules,
                            processed, empty, waiting, RunVars, job, ClientVars>>
          /\ \A r \in Runners :
                runPc[r] = "loop" /\ runPc'[r] = "schedule" => ~stopsign[r]]_vars
    /\ \A r \in Runners : (stopsign[r] /\ runPc[r] # "idle") ~> (runPc[r] = "returned")
    /\ [](\A r \in Runners :
            runPc[r] = "returned" =>
               /\ tasks[r] = {}
               /\ JobsOf(r) = {}
               /\ \A id \in ClaimedBy(r) : store[id].status \in Terminal
               /\ processed[r] = Cardinality(ClaimedBy(r)))

\* run() has returned after a stop, the runner having claimed and run two tasks.
C10_Witness ==
    /\ runPc[1] = "returned"
    /\ stopsign[1]
    /\ ~runErr[1]
    /\ processed[1] >= 2

\* C16: whenever a field parser's parse accepts a spec, the list it returns is
\* non-empty, lies inside the field's range, is strictly ascending (so free of
\* duplicates), and parsing its values joined by commas gives the same list
\* again; a spec of one part with a "/step" suffix resolves to every step-th
\* element of what the part before the "/" resolves to; minute.parse("30-45/3")
\* is [30, 33, 36, 39, 42, 45] and hour.parse("*/23") is [0, 23].
C16_ParseResolvesField ==
    (parsed.op = "parse" /\ parsed.pc = "done") =>
        LET p == parsed.parser
            spec == parsed.spec
            values == parsed.result.values
            joined == [i \in DOMAIN values |-> Value(Digits(values[i]))]
            resolved == parse_part(p, [spec[1] EXCEPT !.slash = FALSE], parsed.rnd[1]).values
        IN  /\ parsed.result.raised = "none" =>
                /\ Len(values) > 0
                /\ \A i \in DOMAIN values :
                      p.min_value <= values[i] /\ values[i] <= p.max_value
                /\ \A i, j \in DOMAIN values : i < j => values[i] < values[j]
                /\ parse(p, joined, [i \in DOMAIN values |-> p.min_value]) = parsed.result
                /\ (Len(spec) = 1 /\ spec[1].slash) =>
                      /\ Range(values) \subseteq Range(resolved)
                      /\ \A k \in DOMAIN resolved :
                            resolved[k] \in Range(values) <=> (k - 1) % spec[1].step = 0
            /\ (p = minute /\ spec = <<Slash(FromTo(Digits(30), Digits(45)), 3)>>) =>
                  parsed.result = Returns(<<30, 33, 36, 39, 42, 45>>)
            /\ (p = hour /\ spec = <<Slash(Star, 23)>>) =>
                  parsed.result = Returns(<<0, 23>>)

\* A spec of two overlapping parts, the first with a step, was accepted: the
\* month spec "February-8/3,5" gave [2, 5, 8].
C16_Witness ==
    /\ parsed.op = "parse" /\ parsed.pc = "done"
    /\ parsed.parser = month
    /\ parsed.spec = <<Slash(FromTo(Text("February"), Digits(8)), 3), Value(Digits(5))>>
    /\ parsed.result = Returns(<<2, 5, 8>>)

\* C13: match(dt) is true exactly when dt's minute, hour and month are in the
\* sets their fields resolved to and, where the day-of-month field and the
\* weekday field both were given as something other than "*", dt's day is in
\* the day set or dt's weekday is in the weekday set; and, where at least one
\* of the two is "*", dt's day is in the day set and dt's weekday in the
\* weekday set.
C13_MatchDayOrWeekday ==
    call.op = "match" =>
        LET dt == call.after
            both == cron.spec[3] # <<Star>> /\ cron.spec[5] # <<Star>>
            dayIn == DateOf(dt).day \in Range(cron.days)
            weekdayIn == DateOf(dt).isoweekday \in Range(cron.weekdays)
        IN  call.result <=>
                /\ MinuteOf(dt) \in Range(cron.minutes)
                /\ HourOf(dt) \in Range(cron.hours)
                /\ DateOf(dt).month \in Range(cron.months)
                /\ IF both THEN dayIn \/ weekdayIn ELSE dayIn /\ weekdayIn

\* A crontab of day field "1" and weekday field "5" matched an instant of
\* Friday 2025-01-31: by its weekday alone.
C13_Witness ==
    /\ call.op = "match" /\ call.result
    /\ cron.spec[3] = <<Value(Digits(1))>> /\ cron.spec[5] = <<Value(Digits(5))>>
    /\ DateOf(call.after).day = 31

C14_DatesYieldsEveryMatch ==
    call.op = "dates" =>
        LET minutes == {WholeMinute(call.after) + 60 * k : k \in 0..(MaxMinutes + 2)}
            between == {t \in minutes :
                            call.after < t /\ t < call.until /\ match(cron, t)}
        IN  call.result = Sorted(between)

\* C17: in the weekday field 0 and 7 both mean Sunday: a Crontab whose weekday
\* field is "0-2,5" resolves it to [1, 2, 5, 7], as weekday.parse does, and a
\* Crontab whose weekday field is "0" matches an instant exactly when the same
\* crontab with the weekday field "7" matches it.
C17_ZeroAndSevenAreSunday ==
    /\ (Built /\ cron.spec[5] = <<FromTo(Digits(0), Digits(2)), Value(Digits(5))>>) =>
           cron.weekdays = <<1, 2, 5, 7>>
    /\ (call.op = "match" /\ cron.spec[5] = <<Value(Digits(0))>>) =>
           LET seven == [cron.spec EXCEPT ![5] = <<Value(Digits(7))>>]
           IN  call.result = match(Crontab(seven, NoDraws(seven)), call.after)

C19_EmptySignal ==
    [][\A r \in Runners :
          /\ (~ empty[r] /\ empty'[r]) =>
                /\ runPc[r] = "claimed" /\ runPc'[r] = "sleep"
                /\ batch[r] = <<>>
                /\ tasks[r] = {}
          /\ (runPc[r] = "claimed" /\ runPc'[r] # "claimed" /\ batch[r] = <<>> /\ tasks[r] # {}) =>
                empty'[r] = empty[r]
          /\ (runPc[r] = "claimed" /\ runPc'[r] # "claimed" /\ batch[r] # <<>>) =>
                /\ ~ empty'[r]
                /\ runPc'[r] = "submit" /\ cursor'[r] = 1
                /\ Range(batch[r]) \cap (DOMAIN job' \cup tasks'[r]) = {}
          /\ (runPc[r] = "submit" /\ runPc'[r] = "register") => ~ empty[r]
      ]_vars

\* A cycle that had a free worker claimed nothing while a task was in flight,
\* and returned with self.empty not set.
C19_Witness ==
    /\ runPc[1] = "sleep"
    /\ available[1] > 0 /\ batch[1] = <<>>
    /\ tasks[1] # {}
    /\ ~ empty[1]

\* C20: the in-flight map of a runner never holds more entries than the runner
\* has workers; and a dispatch cycle that finds the map full claims nothing and
\* changes no record.
C20_BoundedPool ==
    /\ [](\A r \in Runners : Cardinality(tasks[r]) <= workers[r])
    /\ [][\A r \in Runners :
             (runPc[r] = "schedule" /\ runPc'[r] # "schedule"
                 /\ Cardinality(tasks[r]) >= workers[r]) =>
                /\ runPc'[r] = "sleep"
                /\ store' = store
                /\ batch' = batch
         ]_vars

\* The map of a runner of two workers was full, a dispatch cycle found it so and
\* went to sleep, and a record was READY all the while.
C20_Witness ==
    /\ workers[1] = 2 /\ Cardinality(tasks[1]) = 2
    /\ runPc[1] = "sleep" /\ available[1] = 0
    /\ \E id \in DOMAIN store : store[id].status = READY

\* C21: every step of a runner operation that writes the in-flight map, the
\* seen-modules set or the processed counter (the steps that change one of
\* them, and the step of run() that assigns self.processed = 0) is taken while
\* the runner's lock is held.
C21_LockDiscipline ==
    [][\A r \in Runners :
          (\/ tasks'[r] # tasks[r]
           \/ seen_modules'[r] # seen_modules[r]
           \/ processed'[r] # processed[r]
           \/ runPc[r] = "idle" /\ runPc'[r] = "init_delete") =>
              lock[r] # Free
      ]_vars


\* C22: a run of cleanup(retention) deletes exactly the rows whose status is
\* SUCCESSFUL or FAILED and whose finish time is before now minus retention;
\* every other row (READY, RUNNING, or finished within the window, the instant
\* now minus retention included) is still there and unchanged, and no row appears.
C22_CleanupDeletesExactlyExpired ==
    [][\A retention \in 0..MaxTime :
          cleanup_run(retention) =>
              /\ DOMAIN store' \subseteq DOMAIN store
              /\ \A id \in DOMAIN store :
                    IF /\ store[id].status \in {SUCCESSFUL, FAILED}
                       /\ store[id].finished_at < now - retention
                    THEN id \notin DOMAIN store'
                    ELSE id \in DOMAIN store' /\ store'[id] = store[id]
      ]_vars

\* A row has been deleted while a READY row and a row that finished before now
\* are kept.
C22_Witness ==
    /\ \E id \in 1..(nextId - 1) : id \notin DOMAIN store
    /\ \E id \in DOMAIN store : store[id].status = READY
    /\ \E id \in DOMAIN store :
          store[id].status \in {SUCCESSFUL, FAILED} /\ store[id].finished_at < now


\* C23: no lost wake-up (SpecWaitForFair). A caller that is in wait_for without
\* a timeout, on a task whose row has reached a terminal status, eventually
\* returns from the call, wherever the caller stood (before or after registering
\* its signal) when the task's completion handler ran.
C23_NoLostWakeUp ==
    \A c \in Clients :
        (IF client[c].pc \in {"wait_for_register", "wait_for_block"} /\ ~client[c].timeout
         THEN store[client[c].pk].status \in Terminal
         ELSE FALSE)
            ~> (client[c].pc \in Returned)


\* C24: concurrent waiters (SpecWaiters). The step of a completion handler that
\* sets the signal registered for its task sets the signal of every caller
\* blocked in wait_for on that task id, no call of wait_for ends in an error,
\* and a caller that has registered its signal and waits on it is not woken by
\* anything but that signal when it has no timeout.
C24_ConcurrentWaiters ==
    [][/\ \A pk \in DOMAIN job :
             /\ job[pk].done = "signal"
             /\ pk \in DOMAIN job' => job'[pk].done # "signal"
             => \A c \in Clients :
                   /\ client[c].pc = "wait_for_block"
                   /\ client[c].pk = pk
                   /\ client[c].runner = job[pk].runner
                   => event'[c]
       /\ \A c \in Clients :
             /\ client'[c].pc = "wait_for_KeyError" => client[c].pc = "wait_for_KeyError"
             /\ client[c].pc = "wait_for_block" /\ client'[c].pc = "wait_for_del"
                   => client[c].timeout \/ event[c]
      ]_vars


\* The rows runner r has put into its in-flight map since run() started: those
\* it claimed, less those of the batch at hand that schedule_tasks has yet to
\* register.
Registered(r) ==
    LET NotYet ==
            {batch[r][i] : i \in {j \in DOMAIN batch[r] :
                CASE runPc[r] = "claimed" -> TRUE
                  [] runPc[r] \in {"submit", "register"} -> j >= cursor[r]
                  [] runPc[r] \in {"callback", "inline", "next"} -> j > cursor[r]
                  [] OTHER -> FALSE}}
    IN  {id \in DOMAIN store : r \in Range(store[id].worker_ids)} \ NotYet

\* C25: completion bookkeeping (FairSpec). In every state processed +
\* |in-flight map| = |Registered|; an id in the map is a registered one whose
\* handler has not run its locked section; a handler at its locked section finds
\* its id in the map (also when the worker finished before the callback was
\* added), so it never removes an absent id; a callback is added or called once
\* per future, after the registration; and every id in the map is eventually
\* taken out of it.
C25_CompletionBookkeeping ==
    /\ [](\A r \in Runners :
            /\ processed[r] + Cardinality(tasks[r]) = Cardinality(Registered(r))
            /\ tasks[r] \subseteq Registered(r)
            /\ \A id \in tasks[r] : id \in DOMAIN job /\ job[id].done \in {"no", "lock"}
            /\ \A pk \in JobsOf(r) :
                  (job[pk].done = "lock" \/ job[pk].callback) => pk \in Registered(r)
            /\ \A pk \in JobsOf(r) : job[pk].done = "lock" => pk \in tasks[r])
    /\ [][\A pk \in DOMAIN job \cap DOMAIN job' :
             /\ job'[pk].done = "lock" /\ job[pk].done # "lock" => job[pk].done = "no"
             /\ job'[pk].callback /\ ~job[pk].callback => job[pk].done = "no"
             /\ job'[pk].done = "no" => job[pk].done = "no"]_vars
    /\ \A id \in 1..MaxTasks : (id \in tasks[1]) ~> (id \notin tasks[1])

\* A worker finished its task before schedule_tasks added the callback, the
\* handler was called by the thread in run() and has counted the task, while
\* another task is in the in-flight map.
C25_Witness ==
    /\ processed[1] = 1
    /\ Cardinality(tasks[1]) = 1
    /\ \E pk \in DOMAIN job : job[pk].by = "loop" /\ job[pk].done = "signal"


\* C26: progress (SpecProgress). Every READY row on the runner's backend and
\* queues whose run_after is null or not after now is eventually claimed by the
\* runner and in a terminal status, whatever its priority; and once a row is in
\* a terminal status the runner's queue-empty signal is eventually set.
C26_Progress ==
    \A id \in 1..MaxTasks :
        /\ (IF id \in DOMAIN store
            THEN /\ store[id].status = READY
                 /\ store[id].backend = BackendAlias(1)
                 /\ store[id].queue \in BackendQueues(1)
                 /\ (store[id].run_after = Null \/ store[id].run_after <= now)
            ELSE FALSE)
              ~> (IF id \in DOMAIN store
                  THEN store[id].status \in Terminal /\ store[id].worker_ids = <<1>>
                  ELSE FALSE)
        /\ (IF id \in DOMAIN store THEN store[id].status \in Terminal ELSE FALSE)
              ~> empty[1]

\* The queue-empty signal is set after a row of priority 0 was run to FAILED and
\* a row of priority 1 to SUCCESSFUL, both claimed by the runner, while a row on
\* another backend is still READY.
C26_Witness ==
    /\ empty[1]
    /\ DOMAIN store = 1..3
    /\ store[1].priority = 0 /\ store[1].status = FAILED /\ store[1].worker_ids = <<1>>
    /\ store[2].priority = 1 /\ store[2].status = SUCCESSFUL /\ store[2].worker_ids = <<1>>
    /\ store[3].backend = "other" /\ store[3].status = READY

====
